---- MODULE Spec2Model ----
(***************************************************************************)
(* A model of meshmode's mesh data model (meshmode/mesh/__init__.py) and   *)
(* of the face restriction (meshmode/discretization/connection/face.py).   *)
(*                                                                         *)
(* Conventions.  Python's None is the empty tuple <<>> and an assigned     *)
(* number x is <<x>>.  A numpy array of shape (n, k) is a record           *)
(* [ncols |-> k, rows |-> <<row_1, ..., row_n>>]; the VALUES stored in     *)
(* arrays (vertex numbers, element numbers, face ids) are 0-based as in    *)
(* the program, while TLA+ sequences are indexed from 1.  Floating point   *)
(* coordinates (vertices, nodes) are not represented: unit_nodes is kept   *)
(* as its shape <<dim, nunit_nodes>> and the vertex array as its number    *)
(* of columns.                                                             *)
(***************************************************************************)
EXTENDS Integers, Sequences, FiniteSets, TLC

(***************************************************************************)
(* Bounds of the model.                                                    *)
(***************************************************************************)
NVertices == 4          \* vertices of a user-built mesh: 0 .. NVertices-1
MaxNel == 2             \* elements per user-built group
MaxUnitNodes == 2       \* unit nodes per element of a user-built group
MaxUserGroups == 1      \* group objects the user constructs (life cycle)
MaxMeshes == 2          \* Mesh objects the user constructs (life cycle)
MaxGroupsPerMesh == 2   \* length of the group list handed to Mesh()
MaxAccesses == 2        \* reads of element_connectivity per mesh (life cycle)
MaxStitchGroups == 3    \* groups of a mesh whose numbering is examined
MaxConnEls == 2         \* elements of a mesh whose connectivity is examined
MaxConnGroups == 2      \* groups of a mesh whose connectivity is examined
MaxFaceEls == 2         \* elements of a volume mesh that is restricted

VARIABLES
    groups,       \* the group objects the user constructed (object id = index)
    joined,       \* ids of the user's groups a Mesh has been built from
    user_mesh,    \* <<>> or <<m>>: the Mesh object the user holds
    mesh_args,    \* the arguments that mesh was constructed with
    ncompute,     \* runs of _compute_connectivity_from_vertices on that mesh
    naccess,      \* reads of element_connectivity of that mesh
    nmeshes,      \* Mesh objects constructed so far
    result,       \* outcome of the last operation
    discr,        \* the volume discretization handed to the face restriction
    face_vertices,  \* <<>> or <<what _get_face_vertices returned>>
    restriction   \* <<>> or <<the outcome of make_face_restriction>>

meshVars == <<groups, joined, user_mesh, mesh_args, ncompute, naccess, nmeshes, result>>

faceVars == <<discr, face_vertices, restriction>>

vars == <<meshVars, faceVars>>

None == <<>>

Range(s) == {s[i] : i \in DOMAIN s}

RECURSIVE SumSeq(_)
SumSeq(s) == IF s = <<>> THEN 0 ELSE Head(s) + SumSeq(Tail(s))

RECURSIVE SetToSeq(_)
\* iteration order of a Python set of small non-negative ints: ascending
\* (hash(i) = i, no collisions below the table size)
SetToSeq(S) ==
    IF S = {} THEN <<>>
    ELSE LET m == CHOOSE x \in S : \A y \in S : x <= y
         IN <<m>> \o SetToSeq(S \ {m})

RECURSIVE Flatten(_)
Flatten(ss) == IF ss = <<>> THEN <<>> ELSE Head(ss) \o Flatten(Tail(ss))

RECURSIVE CumSum(_, _)
\* np.cumsum: running totals, same length as the input
CumSum(s, acc) ==
    IF s = <<>> THEN <<>>
    ELSE <<acc + Head(s)>> \o CumSum(Tail(s), acc + Head(s))

(***************************************************************************)
(* MeshElementGroup / SimplexElementGroup                                  *)
(***************************************************************************)
\* MeshElementGroup.nelements: vertex_indices.shape[0]
nelements(g) == Len(g.vertex_indices.rows)

\* MeshElementGroup.nunit_nodes: unit_nodes.shape[-1]
nunit_nodes(g) == g.unit_nodes[2]

\* MeshElementGroup.nnodes
nnodes(g) == nelements(g) * g.unit_nodes[2]

\* MeshElementGroup.dim: unit_nodes.shape[0]
dim(g) == g.unit_nodes[1]

\* SimplexElementGroup.__init__ with unit_nodes given by its shape
SimplexElementGroup(order, vertex_indices, unit_nodes) ==
    IF vertex_indices.ncols # unit_nodes[1] + 1
    THEN [exc |-> "ValueError", val |-> None]
    ELSE [exc |-> "",
          val |-> [order |-> order,
                   vertex_indices |-> vertex_indices,
                   unit_nodes |-> unit_nodes,
                   element_nr_base |-> None,
                   node_nr_base |-> None]]

\* MeshElementGroup.copy: the bases are reset unless given; every other
\* field not in kwargs is taken from self (Record.copy)
copy(self, kwargs) ==
    LET k1 == IF "element_nr_base" \in DOMAIN kwargs THEN kwargs
              ELSE kwargs @@ [element_nr_base |-> None]
        k2 == IF "node_nr_base" \in DOMAIN k1 THEN k1
              ELSE k1 @@ [node_nr_base |-> None]
    IN [f \in DOMAIN self |-> IF f \in DOMAIN k2 THEN k2[f] ELSE self[f]]

\* MeshElementGroup.join_mesh: self is left as it is, a stamped copy is
\* returned
join_mesh(self, el_nr, node_nr) ==
    IF self.element_nr_base # None
    THEN [exc |-> "RuntimeError", val |-> None]
    ELSE [exc |-> "",
          val |-> copy(self, [element_nr_base |-> <<el_nr>>,
                              node_nr_base |-> <<node_nr>>])]

(***************************************************************************)
(* ElementConnectivity and Mesh                                            *)
(***************************************************************************)
\* A Record's attributes are the keyword arguments of its constructor: a
\* set of <<name, value>> pairs.
HasAttr(rec, name) == \E p \in rec.attrs : p[1] = name

GetAttr(rec, name) == (CHOOSE p \in rec.attrs : p[1] = name)[2]

\* ElementConnectivity(**kwargs)
ElementConnectivity(kwargs) == [kind |-> "ElementConnectivity", attrs |-> kwargs]

\* the values False and None of Mesh._element_connectivity
ConnFalse == [kind |-> "False", attrs |-> {}]

ConnNone == [kind |-> "None", attrs |-> {}]

RECURSIVE JoinLoopNoAdvance(_, _, _, _)
\* a faulty variant: the running element number is not advanced
JoinLoopNoAdvance(gs, el_nr, node_nr, new_groups) ==
    IF gs = <<>> THEN [exc |-> "", val |-> new_groups]
    ELSE LET ng == join_mesh(Head(gs), el_nr, node_nr)
         IN IF ng.exc # "" THEN [exc |-> ng.exc, val |-> <<>>]
            ELSE JoinLoopNoAdvance(Tail(gs), el_nr,
                                   node_nr + nnodes(ng.val),
                                   Append(new_groups, ng.val))

RECURSIVE JoinLoop(_, _, _, _)
\* Mesh.__init__, the loop "for g in groups": each group joins with the
\* running element and node numbers
JoinLoop(gs, el_nr, node_nr, new_groups) ==
    IF gs = <<>> THEN [exc |-> "", val |-> new_groups]
    ELSE LET ng == join_mesh(Head(gs), el_nr, node_nr)
         IN IF ng.exc # "" THEN [exc |-> ng.exc, val |-> <<>>]
            ELSE JoinLoop(Tail(gs), el_nr + nelements(ng.val),
                          node_nr + nnodes(ng.val),
                          Append(new_groups, ng.val))

\* Mesh.__init__, the signature: element_connectivity=False
DefaultElementConnectivity == [kind |-> "False", val |-> <<>>]

\* Mesh.__init__, "if element_connectivity is not False and ... is not None":
\* a supplied pair (nb_starts, nbs) is wrapped in an ElementConnectivity
SuppliedConnectivity(element_connectivity) ==
    IF element_connectivity.kind = "tuple"
    THEN ElementConnectivity(
            {<<"element_neighbors_starts", element_connectivity.val[1]>>,
             <<"element_neighbors", element_connectivity.val[2]>>})
    ELSE [kind |-> element_connectivity.kind, attrs |-> {}]

\* _test_node_vertex_consistency_simplex: the numerical comparison passes
\* for the consistent geometry the model assumes; np.max over the errors of
\* a group without elements raises (zero-size reduction)
_test_node_vertex_consistency_simplex(mgrp) ==
    IF nelements(mgrp) = 0 THEN "ValueError" ELSE ""

RECURSIVE _test_node_vertex_consistency(_)
\* _test_node_vertex_consistency: every group of the mesh, in order
_test_node_vertex_consistency(gs) ==
    IF gs = <<>> THEN ""
    ELSE LET e == _test_node_vertex_consistency_simplex(Head(gs))
         IN IF e # "" THEN e ELSE _test_node_vertex_consistency(Tail(gs))

\* Mesh.dim: single_valued over the groups' dims
MeshDim(gs) ==
    IF gs = <<>> THEN [exc |-> "ValueError", val |-> 0]
    ELSE IF \E i \in DOMAIN gs : dim(gs[i]) # dim(gs[1])
         THEN [exc |-> "AssertionError", val |-> 0]
         ELSE [exc |-> "", val |-> dim(gs[1])]

\* Mesh.__init__, "if not skip_tests": the construction-time tests
MeshTests(gs) ==
    LET e == _test_node_vertex_consistency(gs)
    IN IF e # "" THEN e ELSE MeshDim(gs).exc

\* Mesh.__init__
Mesh(nvertices, gs, skip_tests, element_connectivity) ==
    LET new_groups == JoinLoop(gs, 0, 0, <<>>)
        tests == IF skip_tests THEN "" ELSE MeshTests(new_groups.val)
    IN IF new_groups.exc # "" THEN [exc |-> new_groups.exc, val |-> None]
       ELSE IF tests # "" THEN [exc |-> tests, val |-> None]
       ELSE [exc |-> "",
             val |-> [nvertices |-> nvertices,
                      groups |-> new_groups.val,
                      _element_connectivity |->
                          SuppliedConnectivity(element_connectivity)]]

\* Mesh.nelements
MeshNelements(mesh) ==
    SumSeq([i \in DOMAIN mesh.groups |-> nelements(mesh.groups[i])])

(***************************************************************************)
(* _compute_connectivity_from_vertices                                     *)
(***************************************************************************)
\* the scan "for grp / for iel_grp / for ivertex" as the sequence of
\* <<ivertex, iel_base + iel_grp>> it visits
Incidences(mesh) ==
    Flatten([gi \in DOMAIN mesh.groups |->
        LET grp == mesh.groups[gi]
            iel_base == grp.element_nr_base[1]
        IN Flatten([e \in 1..nelements(grp) |->
              [k \in 1..grp.vertex_indices.ncols |->
                  <<grp.vertex_indices.rows[e][k], iel_base + e - 1>>]])])

\* vertex_to_element: per vertex, the elements appended in scan order
VertexToElement(mesh) ==
    [v \in 0..mesh.nvertices - 1 |->
        LET inc == Incidences(mesh)
            AtV(p) == p[1] = v
            sel == SelectSeq(inc, AtV)
        IN [i \in DOMAIN sel |-> sel[i][2]]]

\* a faulty variant: an element's neighbours are taken from its first vertex only
ElementToElementFirstVertex(mesh) ==
    LET v2e == VertexToElement(mesh)
        inc == Incidences(mesh)
    IN [el \in 0..MeshNelements(mesh) - 1 |->
          UNION {Range(v2e[inc[i][1]]) :
                 i \in {j \in DOMAIN inc :
                          /\ inc[j][2] = el
                          /\ \A k \in 1..j-1 : inc[k][2] # el}}]

\* element_to_element: per element, the union of the incident-element
\* lists of its vertices
ElementToElement(mesh) ==
    LET v2e == VertexToElement(mesh)
        inc == Incidences(mesh)
    IN [el \in 0..MeshNelements(mesh) - 1 |->
          UNION {Range(v2e[inc[i][1]]) :
                 i \in {j \in DOMAIN inc : inc[j][2] = el}}]

\* _compute_connectivity_from_vertices: the CSR pair
_compute_connectivity_from_vertices(mesh) ==
    LET e2e == ElementToElement(mesh)
        n == MeshNelements(mesh)
        lengths == [i \in 1..n |-> Cardinality(e2e[i-1])]
        neighbors_starts == CumSum(<<0>> \o lengths, 0)
        neighbors == Flatten([i \in 1..n |-> SetToSeq(e2e[i-1])])
    IN ElementConnectivity({<<"neighbors_starts", neighbors_starts>>,
                            <<"neighbors", neighbors>>})

\* a faulty variant: the computed connectivity is returned but not stored
element_connectivity_nocache(mesh) ==
    IF mesh._element_connectivity.kind = "False"
    THEN [exc |-> "ConnectivityUnavailable", val |-> None, mesh |-> mesh,
          computed |-> 0]
    ELSE IF mesh._element_connectivity.kind = "None"
    THEN [exc |-> "", val |-> _compute_connectivity_from_vertices(mesh),
          mesh |-> mesh, computed |-> 1]
    ELSE [exc |-> "", val |-> mesh._element_connectivity, mesh |-> mesh,
          computed |-> 0]

\* a faulty variant: an unavailable connectivity is computed instead of refused
element_connectivity_norefuse(mesh) ==
    IF mesh._element_connectivity.kind \in {"False", "None"}
    THEN LET c == _compute_connectivity_from_vertices(mesh)
         IN [exc |-> "", val |-> c,
             mesh |-> [mesh EXCEPT !._element_connectivity = c],
             computed |-> 1]
    ELSE [exc |-> "", val |-> mesh._element_connectivity, mesh |-> mesh,
          computed |-> 0]

\* Mesh.element_connectivity (the property): the outcome, the mesh after
\* the access and the number of runs of the builder
element_connectivity(mesh) ==
    IF mesh._element_connectivity.kind = "False"
    THEN [exc |-> "ConnectivityUnavailable", val |-> None, mesh |-> mesh,
          computed |-> 0]
    ELSE IF mesh._element_connectivity.kind = "None"
    THEN LET c == _compute_connectivity_from_vertices(mesh)
         IN [exc |-> "", val |-> c,
             mesh |-> [mesh EXCEPT !._element_connectivity = c],
             computed |-> 1]
    ELSE [exc |-> "", val |-> mesh._element_connectivity, mesh |-> mesh,
          computed |-> 0]


(***************************************************************************)
(* The mesh life cycle: the user constructs groups and meshes and reads    *)
(* element_connectivity of the mesh it holds.                              *)
(***************************************************************************)
\* the interpolation order of a user-built group (it plays no part in the
\* numbering)
Orders == {1}

\* rows of a segment group: element e joins the vertices e and e+1
ChainRows(n) == [e \in 1..n |-> <<e - 1, e>>]

\* vertex_indices arrays handed to the group constructor in the life cycle:
\* a group without elements and a group of two segments
VertexArrays == {[ncols |-> 2, rows |-> ChainRows(n)] : n \in {0, 2}}

\* unit_nodes shapes handed to the group constructor (dim 2 does not fit
\* two vertices per element)
UnitNodeShapes == {<<1, 2>>, <<2, 2>>}

\* element_connectivity arguments of Mesh(): False, None or a pair
\* (element_neighbors_starts, element_neighbors)
ConnArgs ==
    {[kind |-> "omitted", val |-> <<>>],
     [kind |-> "False", val |-> <<>>], [kind |-> "None", val |-> <<>>],
     [kind |-> "tuple", val |-> <<<<0, 1, 2>>, <<1, 0>>>>]}

\* the group objects a caller can name: the ones it constructed and the
\* stamped ones held by its mesh
GroupRefs ==
    {<<"user", i>> : i \in DOMAIN groups}
    \cup {<<"mesh", k>> : k \in IF user_mesh = <<>> THEN {}
                                 ELSE DOMAIN user_mesh[1].groups}

Deref(r) == IF r[1] = "user" THEN groups[r[2]] ELSE user_mesh[1].groups[r[2]]

ArgLists == UNION {[1..n -> GroupRefs] : n \in 0..MaxGroupsPerMesh}

UserArgs(args) == {args[i][2] : i \in {j \in DOMAIN args : args[j][1] = "user"}}

Init ==
    /\ groups = <<>>
    /\ joined = {}
    /\ user_mesh = <<>>
    /\ mesh_args = None
    /\ ncompute = 0
    /\ naccess = 0
    /\ nmeshes = 0
    /\ result = [op |-> "start", exc |-> "", obj |-> 0, val |-> None]
    /\ discr = None
    /\ face_vertices = None
    /\ restriction = None

\* g = SimplexElementGroup(order, vertex_indices, nodes, unit_nodes=...)
CreateGroup(order, vertex_indices, unit_nodes) ==
    /\ Len(groups) < MaxUserGroups
    /\ LET r == SimplexElementGroup(order, vertex_indices, unit_nodes)
       IN /\ groups' = IF r.exc = "" THEN Append(groups, r.val) ELSE groups
          /\ result' = [op |-> "SimplexElementGroup", exc |-> r.exc,
                        obj |-> IF r.exc = "" THEN Len(groups) + 1 ELSE 0,
                        val |-> None]
    /\ UNCHANGED <<joined, user_mesh, mesh_args, ncompute, naccess, nmeshes>>
    /\ UNCHANGED faceVars

\* m = Mesh(vertices, [the groups named by args], skip_tests,
\* element_connectivity); on success the user holds m from now on.  An
\* omitted element_connectivity takes the default of the signature.
CreateMesh(args, skip_tests, conn) ==
    /\ nmeshes < MaxMeshes
    /\ LET r == Mesh(NVertices, [i \in DOMAIN args |-> Deref(args[i])],
                     skip_tests,
                     IF conn.kind = "omitted" THEN DefaultElementConnectivity
                     ELSE conn)
       IN IF r.exc = ""
          THEN /\ user_mesh' = <<r.val>>
               /\ mesh_args' = [groups |-> args, conn |-> conn]
               /\ joined' = joined \cup UserArgs(args)
               /\ ncompute' = 0
               /\ naccess' = 0
               /\ nmeshes' = nmeshes + 1
               /\ result' = [op |-> "Mesh", exc |-> "", obj |-> nmeshes + 1,
                             val |-> None]
          ELSE /\ result' = [op |-> "Mesh", exc |-> r.exc, obj |-> 0,
                             val |-> None]
               /\ UNCHANGED <<user_mesh, mesh_args, joined, ncompute,
                              naccess, nmeshes>>
    /\ UNCHANGED groups
    /\ UNCHANGED faceVars

\* mesh.element_connectivity
Access ==
    /\ user_mesh # <<>>
    /\ naccess < MaxAccesses
    /\ LET r == element_connectivity(user_mesh[1])
       IN /\ user_mesh' = <<r.mesh>>
          /\ ncompute' = ncompute + r.computed
          /\ naccess' = naccess + 1
          /\ result' = [op |-> "element_connectivity", exc |-> r.exc,
                        obj |-> nmeshes, val |-> r.val]
    /\ UNCHANGED <<groups, joined, mesh_args, nmeshes>>
    /\ UNCHANGED faceVars

Next ==
    \/ \E o \in Orders, vi \in VertexArrays, un \in UnitNodeShapes :
          CreateGroup(o, vi, un)
    \/ \E args \in ArgLists, st \in BOOLEAN, c \in ConnArgs :
          CreateMesh(args, st, c)
    \/ Access

Spec == Init /\ [][Next]_vars


(***************************************************************************)
(* Mesh construction and connectivity as functions of the group list: the  *)
(* user's groups are drawn at the start and one Mesh is built from all of  *)
(* them, in order.                                                         *)
(***************************************************************************)
AllUserArgs == [i \in DOMAIN groups |-> <<"user", i>>]

\* a freshly constructed group of simplices with ncols vertices each
NewSimplexGroup(rows, ncols, nunit) ==
    SimplexElementGroup(1, [ncols |-> ncols, rows |-> rows],
                        <<ncols - 1, nunit>>).val

\* group lists whose numbering is examined
StitchGroups ==
    {NewSimplexGroup(ChainRows(n), 2, k) : n \in 0..MaxNel, k \in 1..MaxUnitNodes}

InitStitch ==
    /\ groups \in UNION {[1..n -> StitchGroups] : n \in 0..MaxStitchGroups}
    /\ joined = {}
    /\ user_mesh = <<>>
    /\ mesh_args = None
    /\ ncompute = 0
    /\ naccess = 0
    /\ nmeshes = 0
    /\ result = [op |-> "start", exc |-> "", obj |-> 0, val |-> None]
    /\ discr = None
    /\ face_vertices = None
    /\ restriction = None

\* Mesh(vertices, groups, skip_tests=st), once
NextStitch ==
    \E st \in BOOLEAN :
        /\ user_mesh = <<>>
        /\ CreateMesh(AllUserArgs, st, [kind |-> "False", val |-> <<>>])

SpecStitch == InitStitch /\ [][NextStitch]_vars

\* rows of a segment (ncols = 2) or triangle (ncols = 3) group: distinct
\* vertices, listed in ascending order
ConnRows(ncols) ==
    {SetToSeq(S) : S \in {T \in SUBSET (0..NVertices - 1) : Cardinality(T) = ncols}}

\* the group list that cuts the element rows rs at the positions cuts
CutGroups(rs, ncols, k, cuts) ==
    [i \in 1..k |->
        NewSimplexGroup(
            SubSeq(rs, (IF i = 1 THEN 0 ELSE cuts[i-1]) + 1,
                       IF i = k THEN Len(rs) ELSE cuts[i]), ncols, 2)]

InitConn ==
    /\ \E n \in 0..MaxConnEls, k \in 0..MaxConnGroups, ncols \in {2, 3} :
         \E rs \in [1..n -> ConnRows(ncols)], cuts \in [1..k-1 -> 0..n] :
            /\ k = 0 => n = 0
            /\ \A i \in 1..k-2 : cuts[i] <= cuts[i+1]
            /\ groups = CutGroups(rs, ncols, k, cuts)
    /\ joined = {}
    /\ user_mesh = <<>>
    /\ mesh_args = None
    /\ ncompute = 0
    /\ naccess = 0
    /\ nmeshes = 0
    /\ result = [op |-> "start", exc |-> "", obj |-> 0, val |-> None]
    /\ discr = None
    /\ face_vertices = None
    /\ restriction = None

\* Mesh(vertices, groups, skip_tests=st, element_connectivity=None), once,
\* and reads of its element_connectivity
NextConn ==
    \/ \E st \in BOOLEAN :
          /\ user_mesh = <<>>
          /\ CreateMesh(AllUserArgs, st, [kind |-> "None", val |-> <<>>])
    \/ Access

SpecConn == InitConn /\ [][NextConn]_vars


(***************************************************************************)
(* Properties of the mesh data model                                       *)
(***************************************************************************)
\* element and node counts of the user's groups, in list order
GroupNelements == [i \in DOMAIN groups |-> Len(groups[i].vertex_indices.rows)]

GroupNnodes ==
    [i \in DOMAIN groups |->
        Len(groups[i].vertex_indices.rows) * groups[i].unit_nodes[2]]

\* C1: a Mesh built from the group list with element counts n_1..n_m has
\* nelements = n_1 + ... + n_m; every stored group's element_nr_base is
\* the sum of the element counts of the groups before it (0 for the first
\* group), and its node_nr_base is the sum of their node counts.
C1_PrefixSumBases ==
    user_mesh # <<>> =>
        LET m == user_mesh[1]
        IN /\ Len(m.groups) = Len(groups)
           /\ MeshNelements(m) = SumSeq(GroupNelements)
           /\ m.groups # <<>> => m.groups[1].element_nr_base = <<0>>
           /\ \A i \in DOMAIN m.groups :
                /\ m.groups[i].element_nr_base =
                      <<SumSeq(SubSeq(GroupNelements, 1, i - 1))>>
                /\ m.groups[i].node_nr_base =
                      <<SumSeq(SubSeq(GroupNnodes, 1, i - 1))>>

\* a mesh of three groups with 2, 1 and 2 elements and 2, 1 and 2 unit
\* nodes: element bases 0, 2, 3 and node bases 0, 4, 5
C1_Witness ==
    /\ user_mesh # <<>>
    /\ Len(user_mesh[1].groups) = 3
    /\ GroupNelements = <<2, 1, 2>>
    /\ user_mesh[1].groups[2].element_nr_base = <<2>>
    /\ user_mesh[1].groups[3].element_nr_base = <<3>>
    /\ user_mesh[1].groups[3].node_nr_base = <<5>>

\* the rows of all elements of the user's groups, in global element order
GlobalRows == Flatten([i \in DOMAIN groups |-> groups[i].vertex_indices.rows])

\* elements i and j (global, 0-based) have a vertex in common
ShareVertex(i, j) == Range(GlobalRows[i + 1]) \cap Range(GlobalRows[j + 1]) # {}

\* neighbors[neighbors_starts[i] : neighbors_starts[i+1]] as a set
NeighborSlice(ec, i) ==
    LET starts == GetAttr(ec, "neighbors_starts")
        nbs == GetAttr(ec, "neighbors")
    IN Range(SubSeq(nbs, starts[i + 1] + 1, starts[i + 2]))

\* C2: in the connectivity computed from the vertices, j is listed in
\* neighbors[neighbors_starts[i] : neighbors_starts[i+1]] exactly when the
\* elements i and j share a vertex (i = j included).
C2_NeighborsIffSharedVertex ==
    (result.op = "element_connectivity" /\ result.exc = "") =>
        /\ HasAttr(result.val, "neighbors_starts")
        /\ HasAttr(result.val, "neighbors")
        /\ Len(GetAttr(result.val, "neighbors_starts")) = Len(GlobalRows) + 1
        /\ \A i, j \in 0..Len(GlobalRows) - 1 :
              j \in NeighborSlice(result.val, i) <=> ShareVertex(i, j)

\* two groups of one segment each without a common vertex: each element is
\* its own and only neighbour
C2_WitnessDisjoint ==
    /\ result.op = "element_connectivity" /\ result.exc = ""
    /\ Len(groups) = 2 /\ Len(GlobalRows) = 2
    /\ ~ShareVertex(0, 1)
    /\ NeighborSlice(result.val, 0) = {0}
    /\ NeighborSlice(result.val, 1) = {1}

\* C3: the builder runs at most once per mesh, only on a read that finds
\* the connectivity neither supplied nor marked unavailable nor computed
\* yet; every read returns the connectivity the mesh holds, and once the
\* mesh holds one no read changes it.
C3_ComputedAtMostOnce ==
    [][ /\ ncompute' <= 1
        /\ ncompute' > ncompute =>
              /\ user_mesh # <<>>
              /\ user_mesh[1]._element_connectivity = ConnNone
              /\ mesh_args.conn.kind = "None"
              /\ naccess' = naccess + 1
        /\ (result'.op = "element_connectivity" /\ result'.exc = "") =>
              result'.val = user_mesh'[1]._element_connectivity
        /\ (/\ user_mesh # <<>>
            /\ user_mesh[1]._element_connectivity.kind = "ElementConnectivity"
            /\ naccess' = naccess + 1) =>
              /\ user_mesh' = user_mesh
              /\ ncompute' = ncompute
              /\ result'.val = user_mesh[1]._element_connectivity
      ]_vars

\* a mesh built with element_connectivity=None, read twice, the builder
\* having run once
C3_Witness ==
    /\ user_mesh # <<>>
    /\ mesh_args.conn.kind = "None"
    /\ naccess = 2
    /\ ncompute = 1
    /\ result.op = "element_connectivity"
    /\ result.val = user_mesh[1]._element_connectivity

\* C4: a mesh built with element_connectivity=False, or without the
\* argument, is marked unavailable; every read of it raises
\* ConnectivityUnavailable, runs no builder and leaves the mesh as it is.
C4_UnavailableIsRefused ==
    [][ /\ (user_mesh' # <<>> /\ mesh_args'.conn.kind \in {"False", "omitted"}) =>
              /\ user_mesh'[1]._element_connectivity = ConnFalse
              /\ ncompute' = 0
        /\ (/\ user_mesh # <<>>
            /\ user_mesh[1]._element_connectivity = ConnFalse
            /\ naccess' = naccess + 1) =>
              /\ result'.op = "element_connectivity"
              /\ result'.exc = "ConnectivityUnavailable"
              /\ user_mesh' = user_mesh
      ]_vars

\* a mesh built without the argument, read twice
C4_Witness ==
    /\ user_mesh # <<>>
    /\ mesh_args.conn.kind = "omitted"
    /\ naccess = 2
    /\ result.op = "element_connectivity"
    /\ result.exc = "ConnectivityUnavailable"

\* C5: a read of element_connectivity of a mesh built with a pair
\* (neighbors_starts, neighbors) returns an ElementConnectivity whose
\* attributes neighbors_starts and neighbors are the supplied arrays.
C5_SuppliedPairReadable ==
    (/\ user_mesh # <<>>
     /\ mesh_args.conn.kind = "tuple"
     /\ result.op = "element_connectivity") =>
        /\ result.exc = ""
        /\ HasAttr(result.val, "neighbors_starts")
        /\ HasAttr(result.val, "neighbors")
        /\ GetAttr(result.val, "neighbors_starts") = mesh_args.conn.val[1]
        /\ GetAttr(result.val, "neighbors") = mesh_args.conn.val[2]

\* C6: a Mesh is built only from groups no Mesh was built from before:
\* neither a stamped group held by a mesh nor a group object an earlier
\* Mesh() was given; and a group's assigned bases are never assigned again.
C6_GroupJoinsOneMesh ==
    [][ /\ nmeshes' = nmeshes + 1 =>
              \A i \in DOMAIN mesh_args'.groups :
                  /\ mesh_args'.groups[i][1] = "user"
                  /\ mesh_args'.groups[i][2] \notin joined
        /\ \A i \in DOMAIN groups : groups'[i] = groups[i]
      ]_vars


(***************************************************************************)
(* Face restriction (meshmode/discretization/connection/face.py)           *)
(***************************************************************************)
\* boundary_tag None
NoTag == "None"

\* SimplexElementGroup.face_vertex_indices: per local face id (position in
\* the table, 0-based), the local vertices of the face
face_vertex_indices(d) ==
    IF d = 1 THEN << <<0, 1>> >>
    ELSE IF d = 2 THEN << <<0, 1>>, <<2, 0>>, <<1, 2>> >>
    ELSE << <<0, 1, 2>>, <<0, 3, 1>>, <<0, 2, 3>>, <<1, 3, 2>> >>

\* SimplexElementGroup.vertex_unit_coordinates: per local vertex (0-based
\* position), its coordinates in the reference element
vertex_unit_coordinates(d) ==
    IF d = 1 THEN << <<0 - 1>>, <<1>> >>
    ELSE IF d = 2 THEN << <<0 - 1, 0 - 1>>, <<1, 0 - 1>>, <<0 - 1, 1>> >>
    ELSE << <<0 - 1, 0 - 1, 0 - 1>>, <<1, 0 - 1, 0 - 1>>,
            <<0 - 1, 1, 0 - 1>>, <<0 - 1, 0 - 1, 1>> >>

\* make_face_restriction, "Find A, b": b is the first face vertex, A the
\* transpose of the other face vertices minus the first; a matrix of shape
\* (nrows, ncols) is kept with its rows
AffinePair(d, face_id) ==
    LET loc_face_vertices == face_vertex_indices(d)[face_id + 1]
        face_vertex_unit_coordinates ==
            [k \in DOMAIN loc_face_vertices |->
                vertex_unit_coordinates(d)[loc_face_vertices[k] + 1]]
        first == face_vertex_unit_coordinates[1]
        rest == [k \in 1..Len(loc_face_vertices) - 1 |->
                    [c \in 1..d |->
                        face_vertex_unit_coordinates[k + 1][c] - first[c]]]
    IN [b |-> first,
        A |-> [nrows |-> d, ncols |-> Len(rest),
               rows |-> [r \in 1..d |-> [k \in DOMAIN rest |-> rest[k][r]]]]]

\* numpy's rule for np.dot(A, bdry_unit_nodes_01): the columns of A are the
\* rows of the unit nodes of the face, which has dimension d - 1
DotConformable(A, d) == A.ncols = d - 1

\* the faces of the reference simplex that the facial adjacency table
\* speaks of: 2 points for a segment, 3 edges for a triangle, 4 triangles
\* for a tetrahedron
ReferenceFaces(d) ==
    IF d = 1 THEN << <<0>>, <<1>> >>
    ELSE IF d = 2 THEN << <<0, 1>>, <<2, 0>>, <<1, 2>> >>
    ELSE << <<0, 1, 2>>, <<0, 3, 1>>, <<0, 2, 3>>, <<1, 3, 2>> >>

\* number of nodes of modepy.warp_and_blend_nodes(d, order)
WarpAndBlendCount(d, order) ==
    IF d = 0 THEN 1
    ELSE IF d = 1 THEN order + 1
    ELSE IF d = 2 THEN ((order + 1) * (order + 2)) \div 2
    ELSE ((order + 1) * (order + 2) * (order + 3)) \div 6

RECURSIVE BitAnd(_, _)
\* a & b on non-negative integers
BitAnd(a, b) ==
    IF a = 0 \/ b = 0 THEN 0
    ELSE (a % 2) * (b % 2) + 2 * BitAnd(a \div 2, b \div 2)

\* Mesh.boundary_tag_bit: the bit of a known tag, 0 for any other tag
\* (None included)
boundary_tag_bit(boundary_tag) ==
    IF boundary_tag = "all" THEN 1
    ELSE IF boundary_tag = "a" THEN 2
    ELSE 0

\* the (group, element, face) slots of a mesh: group 1-based position,
\* element and face 0-based
FaceSlots(mesh) ==
    UNION {{<<ig, e, f>> : e \in 0..nelements(mesh.groups[ig]) - 1,
                           f \in 0..dim(mesh.groups[ig])} :
           ig \in DOMAIN mesh.groups}

\* the global vertices of the face in a slot
SlotVertices(mesh, sl) ==
    LET grp == mesh.groups[sl[1]]
        fvi == ReferenceFaces(dim(grp))[sl[3] + 1]
    IN {grp.vertex_indices.rows[sl[2] + 1][fvi[k] + 1] : k \in DOMAIN fvi}

\* the slots on the other side of a face
Partners(mesh, sl) ==
    {o \in FaceSlots(mesh) :
        o # sl /\ SlotVertices(mesh, o) = SlotVertices(mesh, sl)}

BoundarySlots(mesh) == {sl \in FaceSlots(mesh) : Partners(mesh, sl) = {}}

RECURSIVE SlotsToSeq(_)
\* slots in the order of (element, face)
SlotsToSeq(S) ==
    IF S = {} THEN <<>>
    ELSE LET m == CHOOSE x \in S : \A y \in S :
                     x[2] < y[2] \/ (x[2] = y[2] /\ x[3] <= y[3])
         IN <<m>> \o SlotsToSeq(S \ {m})

\* one facial adjacency group: the faces of group ig whose neighbour is in
\* group nb (0-based, <<nb>>), or that lie on the boundary (None)
FacialAdjacencyGroup(mesh, masks, ig, nb) ==
    LET mine == {sl \in FaceSlots(mesh) : sl[1] = ig}
        sel == IF nb = None THEN mine \cap BoundarySlots(mesh)
               ELSE {sl \in mine :
                        \E o \in Partners(mesh, sl) : o[1] = nb[1] + 1}
        sq == SlotsToSeq(sel)
    IN [igroup |-> ig - 1,
        ineighbor_group |-> nb,
        elements |-> [i \in DOMAIN sq |-> sq[i][2]],
        element_faces |-> [i \in DOMAIN sq |-> sq[i][3]],
        neighbors |-> [i \in DOMAIN sq |->
            IF nb = None THEN 0 - masks[sq[i]]
            ELSE (CHOOSE o \in Partners(mesh, sq[i]) : o[1] = nb[1] + 1)[2]]]

\* Mesh.facial_adjacency_groups: per group, the non-empty adjacency groups
\* in the order in which the map's values are iterated
facial_adjacency_groups(mesh, masks) ==
    [ig \in DOMAIN mesh.groups |->
        LET keys == <<None>> \o [j \in DOMAIN mesh.groups |-> <<j - 1>>]
            all == [i \in DOMAIN keys |->
                       FacialAdjacencyGroup(mesh, masks, ig, keys[i])]
            NonEmpty(fa) == fa.elements # <<>>
        IN SelectSeq(all, NonEmpty)]

\* fagrp_map.get(None): <<>> or <<the boundary group>>
GetBoundaryGroup(fagrp_map) ==
    LET IsBdry(fa) == fa.ineighbor_group = None
    IN SelectSeq(fagrp_map, IsBdry)

\* "face_relevant_flags": the positions of a boundary group whose tag bits
\* meet btag_bit
FaceRelevant(bdry_grp, btag_bit) ==
    {i \in DOMAIN bdry_grp.neighbors :
        BitAnd(0 - bdry_grp.neighbors[i], btag_bit) # 0}

\* _get_face_vertices, one boundary group: for every entry of the face
\* table, the vertices of that face of every flagged element
GroupFaceVertices(mesh, bdry_grp, btag_bit) ==
    LET grp == mesh.groups[bdry_grp.igroup + 1]
        table == face_vertex_indices(dim(grp))
    IN {grp.vertex_indices.rows[bdry_grp.elements[i] + 1][table[iface][k] + 1] :
          i \in FaceRelevant(bdry_grp, btag_bit),
          iface \in DOMAIN table,
          k \in 1..Len(table[1])}

\* _get_face_vertices
_get_face_vertices(d, boundary_tag) ==
    IF boundary_tag # NoTag
    THEN SetToSeq(UNION {
            LET bdry_grp == GetBoundaryGroup(d.facial_adjacency_groups[ig])
            IN IF bdry_grp = <<>> THEN {}
               ELSE GroupFaceVertices(d.mesh, bdry_grp[1],
                                      boundary_tag_bit(boundary_tag)) :
            ig \in DOMAIN d.facial_adjacency_groups})
    ELSE [i \in 1..d.mesh.nvertices |-> i - 1]


\* a faulty variant: the kept vertices are numbered from 1
VolToBdryVerticesFromOne(nvertices, bdry_vertex_vol_nrs) ==
    [v1 \in 1..nvertices |->
        IF \E i \in DOMAIN bdry_vertex_vol_nrs : bdry_vertex_vol_nrs[i] = v1 - 1
        THEN CHOOSE i \in DOMAIN bdry_vertex_vol_nrs :
                 bdry_vertex_vol_nrs[i] = v1 - 1
        ELSE 0 - 1]

\* make_face_restriction, "vol_to_bdry_vertices": -1 everywhere, then the
\* position in bdry_vertex_vol_nrs at every kept vertex
VolToBdryVertices(nvertices, bdry_vertex_vol_nrs) ==
    [v1 \in 1..nvertices |->
        IF \E i \in DOMAIN bdry_vertex_vol_nrs : bdry_vertex_vol_nrs[i] = v1 - 1
        THEN (CHOOSE i \in DOMAIN bdry_vertex_vol_nrs :
                 bdry_vertex_vol_nrs[i] = v1 - 1) - 1
        ELSE 0 - 1]

\* the pairs zip(fagrp.elements[flags], fagrp.element_faces[flags])
ZipFaces(fagrp, keep) ==
    LET idx == SetToSeq(keep)
    IN [i \in DOMAIN idx |->
          <<fagrp.elements[idx[i]], fagrp.element_faces[idx[i]]>>]

\* make_face_restriction, "pull together per-group face lists"
GroupBoundaryFaces(fagrp_map, boundary_tag) ==
    IF boundary_tag # NoTag
    THEN LET bdry_grp == GetBoundaryGroup(fagrp_map)
         IN IF bdry_grp = <<>> THEN <<>>
            ELSE ZipFaces(bdry_grp[1],
                          FaceRelevant(bdry_grp[1], boundary_tag_bit(boundary_tag)))
    ELSE Flatten([i \in DOMAIN fagrp_map |->
            IF fagrp_map[i].ineighbor_group = None THEN <<>>
            ELSE ZipFaces(fagrp_map[i], DOMAIN fagrp_map[i].elements)])

\* "batch_boundary_el_numbers_in_grp": the elements of the pairs with this
\* face id, in list order
BatchElements(group_boundary_faces, face_id) ==
    LET OfFace(p) == p[2] = face_id
        sel == SelectSeq(group_boundary_faces, OfFace)
    IN [i \in DOMAIN sel |-> sel[i][1]]

\* numpy's rule for "target[rows] = value" with value of width vw and
\* target of width tw
Broadcastable(vw, tw) == vw = tw \/ vw = 1

\* make_face_restriction, the body of "for face_id in range(...)": st holds
\* batch_base, the rows of vertex_indices written so far and the connection
\* data recorded so far
FaceStep(mgrp, group_boundary_faces, vol_to_bdry_vertices, table, face_id, st) ==
    LET source == BatchElements(group_boundary_faces, face_id)
        new_el_numbers == [i \in DOMAIN source |-> st.batch_base + i - 1]
        loc_face_vertices == table[face_id + 1]
        glob_face_vertices ==
            [i \in DOMAIN source |->
                [k \in DOMAIN loc_face_vertices |->
                    mgrp.vertex_indices.rows[source[i] + 1]
                                            [loc_face_vertices[k] + 1]]]
        value == [i \in DOMAIN source |->
                    [k \in DOMAIN loc_face_vertices |->
                        vol_to_bdry_vertices[glob_face_vertices[i][k] + 1]]]
        tw == dim(mgrp)
        ab == AffinePair(dim(mgrp), face_id)
    IN IF \/ ~DotConformable(ab.A, dim(mgrp))
          \/ ~Broadcastable(Len(loc_face_vertices), tw)
       THEN [st EXCEPT !.exc = "ValueError"]
       ELSE [exc |-> "",
             batch_base |-> st.batch_base + Len(source),
             rows |-> [r \in DOMAIN st.rows |->
                IF \E i \in DOMAIN source : new_el_numbers[i] = r - 1
                THEN LET i == CHOOSE i \in DOMAIN source :
                                 new_el_numbers[i] = r - 1
                     IN [k \in 1..tw |->
                           value[i][IF Len(loc_face_vertices) = 1 THEN 1 ELSE k]]
                ELSE st.rows[r]],
             batches |-> Append(st.batches,
                [face_id |-> face_id,
                 group_source_element_indices |-> source,
                 group_target_element_indices |-> new_el_numbers,
                 A |-> ab.A,
                 b |-> ab.b])]

RECURSIVE FaceLoop(_, _, _, _, _, _)
\* make_face_restriction, "for face_id in range(len(grp_face_vertex_indices))":
\* the iterations in increasing face id, stopping at the first that raises;
\* nxt is the state after the iteration of face_id
FaceLoop(mgrp, group_boundary_faces, vol_to_bdry_vertices, table, face_id, st) ==
    IF face_id >= Len(table) THEN st
    ELSE CHOOSE out \in
           {IF nxt.exc # "" THEN nxt
            ELSE FaceLoop(mgrp, group_boundary_faces, vol_to_bdry_vertices,
                          table, face_id + 1, nxt) :
              nxt \in {FaceStep(mgrp, group_boundary_faces,
                                vol_to_bdry_vertices, table, face_id, st)}} : TRUE

\* make_face_restriction, the body of "for igrp, (grp, fagrp_map)": the
\* face list, the batches and the derived group of one source group.  A
\* row of vertex_indices that no batch wrote is <<>>.
RestrictGroup(mgrp, fagrp_map, vol_to_bdry_vertices, boundary_tag) ==
    LET group_boundary_faces == GroupBoundaryFaces(fagrp_map, boundary_tag)
        ngroup_bdry_elements == Len(group_boundary_faces)
        looped == FaceLoop(mgrp, group_boundary_faces, vol_to_bdry_vertices,
                      face_vertex_indices(dim(mgrp)), 0,
                      [exc |-> "", batch_base |-> 0,
                       rows |-> [r \in 1..ngroup_bdry_elements |-> <<>>],
                       batches |-> <<>>])
        made == SimplexElementGroup(mgrp.order,
                    [ncols |-> dim(mgrp), rows |-> looped.rows],
                    <<dim(mgrp) - 1,
                      WarpAndBlendCount(dim(mgrp) - 1, mgrp.order)>>)
    IN [exc |-> IF looped.exc # "" THEN looped.exc ELSE made.exc,
        group_boundary_faces |-> group_boundary_faces,
        batches |-> looped.batches,
        bdry_mesh_group |-> IF looped.exc # "" THEN None ELSE made.val]

RECURSIVE GroupLoop(_, _, _, _, _)
\* make_face_restriction, "for igrp, (grp, fagrp_map) in enumerate(...)":
\* stops at the first group that raises
GroupLoop(d, vol_to_bdry_vertices, boundary_tag, igrp, done) ==
    IF igrp > Len(d.mesh.groups) THEN done
    ELSE LET g == RestrictGroup(d.mesh.groups[igrp],
                      d.facial_adjacency_groups[igrp],
                      vol_to_bdry_vertices, boundary_tag)
         IN IF g.exc # "" THEN Append(done, g)
            ELSE GroupLoop(d, vol_to_bdry_vertices, boundary_tag, igrp + 1,
                           Append(done, g))

\* a faulty variant: the element numbers are left group-local
InterpolationBatchLocal(igrp, face_id, vol_grp, bdry_grp, data) ==
    [from_group_index |-> igrp,
     from_element_indices |-> data.group_source_element_indices,
     to_element_indices |-> data.group_target_element_indices,
     to_element_face |-> face_id]

\* _build_boundary_connection, the InterpolationBatch of one face id: the
\* element numbers of the batch offset by the groups' element_nr_base
InterpolationBatch(igrp, face_id, vol_grp, bdry_grp, data) ==
    [from_group_index |-> igrp,
     from_element_indices |->
        [i \in DOMAIN data.group_source_element_indices |->
            vol_grp.element_nr_base[1] + data.group_source_element_indices[i]],
     to_element_indices |->
        [i \in DOMAIN data.group_target_element_indices |->
            bdry_grp.element_nr_base[1] + data.group_target_element_indices[i]],
     to_element_face |-> face_id]

\* _build_boundary_connection: per zipped pair of groups, one batch per
\* entry of the face table; connection_data[igrp, face_id] is
\* connection_data[igrp + 1].batches[face_id + 1]
_build_boundary_connection(vol_groups, bdry_groups, connection_data) ==
    [ig \in 1..(IF Len(vol_groups) <= Len(bdry_groups)
                THEN Len(vol_groups) ELSE Len(bdry_groups)) |->
        [f \in DOMAIN face_vertex_indices(dim(vol_groups[ig])) |->
            InterpolationBatch(ig - 1, f - 1, vol_groups[ig], bdry_groups[ig],
                               connection_data[ig].batches[f])]]

\* make_face_restriction: the outcome, with the values its local variables
\* held when it returned or raised
\* (bdry_vertex_vol_nrs, per_group and bdry_mesh are each bound once, in the
\* order in which the code assigns them)
make_face_restriction(d, boundary_tag) ==
    CHOOSE out \in
      {LET vol_to_bdry_vertices ==
               VolToBdryVertices(d.mesh.nvertices, bdry_vertex_vol_nrs)
       IN CHOOSE out2 \in
            {LET loop_exc == IF per_group = <<>> THEN ""
                             ELSE per_group[Len(per_group)].exc
             IN IF loop_exc # ""
                THEN [exc |-> loop_exc,
                      bdry_vertex_vol_nrs |-> bdry_vertex_vol_nrs,
                      vol_to_bdry_vertices |-> vol_to_bdry_vertices,
                      per_group |-> per_group,
                      bdry_mesh |-> None,
                      connection |-> None]
                ELSE CHOOSE out3 \in
                  {[exc |-> bdry_mesh.exc,
                    bdry_vertex_vol_nrs |-> bdry_vertex_vol_nrs,
                    vol_to_bdry_vertices |-> vol_to_bdry_vertices,
                    per_group |-> per_group,
                    bdry_mesh |-> IF bdry_mesh.exc # "" THEN None
                                  ELSE <<bdry_mesh.val>>,
                    connection |-> IF bdry_mesh.exc # "" THEN None
                                   ELSE <<_build_boundary_connection(
                                            d.mesh.groups, bdry_mesh.val.groups,
                                            per_group)>>] :
                   bdry_mesh \in {Mesh(Len(bdry_vertex_vol_nrs),
                       [i \in DOMAIN per_group |-> per_group[i].bdry_mesh_group],
                       FALSE, DefaultElementConnectivity)}} : TRUE :
             per_group \in {GroupLoop(d, vol_to_bdry_vertices, boundary_tag,
                                      1, <<>>)}} : TRUE :
       bdry_vertex_vol_nrs \in {_get_face_vertices(d, boundary_tag)}} : TRUE


(***************************************************************************)
(* The face restriction as a function of the volume discretization: the    *)
(* discretization and the boundary tag are drawn at the start.             *)
(***************************************************************************)
\* boundary tags asked for: interior faces, two known tags, an unknown tag
FaceTags == {NoTag, "all", "a", "zz"}

\* tag bits of a boundary face: the bit of "all", with or without that of "a"
TagMasks == {1, 3}

\* rows of a strip of n simplices of dimension d: element e has the
\* vertices e .. e+d, so that neighbours in the strip share a face
StripRows(d, n) == [e \in 1..n |-> [k \in 1..d + 1 |-> e - 1 + k - 1]]

\* the volume mesh of a strip, cut into two groups after `cut` elements
\* (one group if cut = 0)
StripMesh(d, n, cut) ==
    LET rows == StripRows(d, n)
        grp(r) == SimplexElementGroup(1, [ncols |-> d + 1, rows |-> r],
                                      <<d, WarpAndBlendCount(d, 1)>>).val
        gs == IF cut = 0 THEN <<grp(rows)>>
              ELSE <<grp(SubSeq(rows, 1, cut)), grp(SubSeq(rows, cut + 1, n))>>
    IN Mesh(n + d, gs, FALSE, DefaultElementConnectivity).val

InitFace ==
    /\ groups = <<>>
    /\ joined = {}
    /\ user_mesh = <<>>
    /\ mesh_args = None
    /\ ncompute = 0
    /\ naccess = 0
    /\ nmeshes = 0
    /\ result = [op |-> "start", exc |-> "", obj |-> 0, val |-> None]
    /\ \E d \in 1..3, n \in 1..MaxFaceEls, tag \in FaceTags :
         \E cut \in 0..n - 1 :
           LET mesh == StripMesh(d, n, cut)
           IN \E masks \in [BoundarySlots(mesh) -> TagMasks] :
                discr = [mesh |-> mesh,
                         facial_adjacency_groups |->
                             facial_adjacency_groups(mesh, masks),
                         boundary_tag |-> tag]
    /\ face_vertices = None
    /\ restriction = None

\* _get_face_vertices(discr.mesh, boundary_tag)
GetFaceVertices ==
    /\ discr # None
    /\ face_vertices' = <<_get_face_vertices(discr, discr.boundary_tag)>>
    /\ UNCHANGED <<meshVars, discr, restriction>>

\* make_face_restriction(discr, group_factory, boundary_tag)
MakeFaceRestriction ==
    /\ discr # None
    /\ restriction' = <<make_face_restriction(discr, discr.boundary_tag)>>
    /\ UNCHANGED <<meshVars, discr, face_vertices>>

NextFace == GetFaceVertices \/ MakeFaceRestriction

SpecFace == InitFace /\ [][NextFace]_vars


(***************************************************************************)
(* Properties of the face restriction.                                     *)
(***************************************************************************)
\* the (element, local face id) pairs that the boundary tag selects in
\* source group ig, read off the facial adjacency table: with a tag, the
\* boundary faces whose tag bit is set; with None, the interior faces
SelectedPairs(d, ig) ==
    LET fm == d.facial_adjacency_groups[ig]
        Chosen(fa, i) ==
            IF d.boundary_tag = NoTag THEN fa.ineighbor_group # None
            ELSE /\ fa.ineighbor_group = None
                 /\ BitAnd(0 - fa.neighbors[i],
                           boundary_tag_bit(d.boundary_tag)) # 0
    IN UNION {{<<fm[j].elements[i], fm[j].element_faces[i]>> :
                 i \in {i2 \in DOMAIN fm[j].elements : Chosen(fm[j], i2)}} :
              j \in DOMAIN fm}

\* the global vertices referenced by the selected pairs of all groups
SelectedVertices(d) ==
    UNION {UNION {SlotVertices(d.mesh, <<ig, p[1], p[2]>>) :
                     p \in SelectedPairs(d, ig)} :
             ig \in DOMAIN d.mesh.groups}

\* how often a pair occurs as a source element of a batch of its face id
Occurrences(batches, p) ==
    Cardinality(UNION {{<<b, i>> :
        i \in {i2 \in DOMAIN batches[b].group_source_element_indices :
                 /\ batches[b].group_source_element_indices[i2] = p[1]
                 /\ batches[b].face_id = p[2]}} :
        b \in DOMAIN batches})

\* C7: with a boundary tag given, _get_face_vertices returns, ascending and
\* without duplicates, exactly the vertices referenced by the selected
\* (element, face) pairs, and a derived mesh built for a tagged boundary that
\* touches k vertices has exactly k columns of vertices.
C7_ExactlyTouchedVertices ==
    /\ (face_vertices # <<>> /\ discr.boundary_tag # NoTag)
          => face_vertices[1] = SetToSeq(SelectedVertices(discr))
    /\ (restriction # <<>> /\ discr.boundary_tag # NoTag
            /\ restriction[1].exc = "")
          => restriction[1].bdry_mesh[1].nvertices
                 = Cardinality(SelectedVertices(discr))

\* C8: for every source group of dimension 1, 2 or 3 and every boundary tag
\* (or None), make_face_restriction builds per-face-id batches that partition
\* the group's selected pairs: every selected pair is a source element of
\* exactly the batch of its face id, once, and the batch sizes sum to the
\* number of selected pairs.
C8_BatchesPartitionSelection ==
    restriction # <<>> =>
        \A ig \in DOMAIN discr.mesh.groups :
            /\ ig \in DOMAIN restriction[1].per_group
            /\ LET g == restriction[1].per_group[ig]
                   sel == SelectedPairs(discr, ig)
               IN /\ g.exc = ""
                  /\ \A p \in sel : Occurrences(g.batches, p) = 1
                  /\ SumSeq([b \in DOMAIN g.batches |->
                        Len(g.batches[b].group_source_element_indices)])
                       = Cardinality(sel)

\* C9: an empty selection is a valid outcome: when the tag selects no face,
\* _get_face_vertices returns an empty sequence, and when it selects no face
\* in a source group, make_face_restriction returns without raising and the
\* derived mesh's group for that source group has no elements.
C9_EmptySelectionIsValid ==
    /\ (/\ face_vertices # <<>>
        /\ discr.boundary_tag # NoTag
        /\ \A ig \in DOMAIN discr.mesh.groups : SelectedPairs(discr, ig) = {})
          => face_vertices[1] = <<>>
    /\ \A ig \in DOMAIN discr.mesh.groups :
          (restriction # <<>> /\ SelectedPairs(discr, ig) = {})
            => /\ restriction[1].exc = ""
               /\ nelements(restriction[1].bdry_mesh[1].groups[ig]) = 0

\* the volume mesh is two segments that share one interior vertex
TwoSegments ==
    /\ MeshDim(discr.mesh.groups).val = 1
    /\ MeshNelements(discr.mesh) = 2

\* C10: for two segments sharing one interior vertex, make_face_restriction
\* with boundary_tag None returns a derived mesh of exactly 2 elements of one
\* vertex each, the shared vertex; a 1-D simplex group exposes 2 local face
\* ids of one local vertex each.
C10_TwoSegmentsInteriorFaces ==
    (restriction # <<>> /\ TwoSegments /\ discr.boundary_tag = NoTag) =>
        /\ Len(face_vertex_indices(1)) = 2
        /\ \A f \in DOMAIN face_vertex_indices(1) :
              Len(face_vertex_indices(1)[f]) = 1
        /\ restriction[1].exc = ""
        /\ MeshNelements(restriction[1].bdry_mesh[1]) = 2
        /\ \A ig \in DOMAIN restriction[1].bdry_mesh[1].groups :
              \A r \in Range(restriction[1].bdry_mesh[1].groups[ig]
                                 .vertex_indices.rows) :
                 /\ Len(r) = 1
                 /\ restriction[1].bdry_vertex_vol_nrs[r[1] + 1] = 1


\* A . x for a matrix kept with its rows
MatVec(A, x) ==
    [r \in 1..A.nrows |-> SumSeq([k \in 1..A.ncols |-> A.rows[r][k] * x[k]])]

\* the unit vector e_k of length n
UnitVector(n, k) == [c \in 1..n |-> IF c = k THEN 1 ELSE 0]

\* C11: for every dimension in {1, 2, 3} and every local face id, the pair
\* (A, b) of make_face_restriction maps the vertices of the canonical
\* reference face, the origin and e_1 .. e_{dim-1}, onto the reference
\* coordinates of the face's local vertices in table order: the face has dim
\* vertices, A acts on vectors of length dim - 1, b is the first face
\* vertex and A.e_k + b is the (k+1)-th.
C11_AffineFaceMap ==
    restriction # <<>> =>
        \A ig \in DOMAIN discr.mesh.groups :
            LET d == dim(discr.mesh.groups[ig])
                table == face_vertex_indices(d)
                coords == vertex_unit_coordinates(d)
            IN \A f \in DOMAIN table :
                  LET ab == AffinePair(d, f - 1)
                  IN /\ Len(table[f]) = d
                     /\ ab.A.ncols = d - 1
                     /\ ab.b = coords[table[f][1] + 1]
                     /\ \A k \in 1..d - 1 :
                          LET Ae == MatVec(ab.A, UnitVector(d - 1, k))
                          IN [c \in 1..d |-> Ae[c] + ab.b[c]]
                                 = coords[table[f][k + 1] + 1]


\* the sequence s with n added to every entry
Offset(n, s) == [i \in DOMAIN s |-> n + s[i]]

\* the number of elements of the groups before position ig
ElementsBefore(gs, ig) ==
    SumSeq([i \in 1..ig - 1 |-> Len(gs[i].vertex_indices.rows)])

\* C12: the connection has one group per parent group, in parent order, and
\* in group igrp one batch per local face id in increasing order; the batch
\* of face id f has from_group_index igrp, to_element_face f, as
\* from_element_indices the parent group's element_nr_base plus the batch's
\* source elements and as to_element_indices the derived group's
\* element_nr_base plus the batch's target elements.
C12_ConnectionStructure ==
    (restriction # <<>> /\ restriction[1].exc = "") =>
        LET r == restriction[1]
            conn == r.connection[1]
        IN /\ Len(conn) = Len(discr.mesh.groups)
           /\ \A ig \in DOMAIN conn :
                /\ Len(conn[ig]) = dim(discr.mesh.groups[ig]) + 1
                /\ \A f \in DOMAIN conn[ig] :
                     LET data == r.per_group[ig].batches[f]
                     IN /\ data.face_id = f - 1
                        /\ conn[ig][f].from_group_index = ig - 1
                        /\ conn[ig][f].to_element_face = f - 1
                        /\ conn[ig][f].from_element_indices =
                             Offset(ElementsBefore(discr.mesh.groups, ig),
                                    data.group_source_element_indices)
                        /\ conn[ig][f].to_element_indices =
                             Offset(ElementsBefore(r.bdry_mesh[1].groups, ig),
                                    data.group_target_element_indices)

\* a connection for two parent groups in which a batch of the second group
\* reads from parent element 1 and writes to a derived element after those
\* of the first group
C12_Witness ==
    /\ restriction # <<>> /\ restriction[1].exc = ""
    /\ Len(restriction[1].connection[1]) = 2
    /\ \E f \in DOMAIN restriction[1].connection[1][2] :
          LET batch == restriction[1].connection[1][2][f]
          IN /\ batch.from_element_indices = <<1>>
             /\ batch.to_element_indices # <<>>
             /\ batch.to_element_indices[1] >= 2
             /\ restriction[1].per_group[2].batches[f]
                    .group_target_element_indices[1] < 2


\* the number of a volume vertex among the kept vertices, -1 if not kept
Renumbered(bdry_vertex_vol_nrs, v) ==
    IF \E i \in DOMAIN bdry_vertex_vol_nrs : bdry_vertex_vol_nrs[i] = v
    THEN (CHOOSE i \in DOMAIN bdry_vertex_vol_nrs : bdry_vertex_vol_nrs[i] = v) - 1
    ELSE 0 - 1

\* the global vertices of local face face_id of element el of a group, in
\* the order of the face
FaceVerticesOf(mgrp, el, face_id) ==
    LET fvi == ReferenceFaces(dim(mgrp))[face_id + 1]
    IN [k \in DOMAIN fvi |-> mgrp.vertex_indices.rows[el + 1][fvi[k] + 1]]

\* C13: in every derived group the target elements of the batches, taken
\* in face-id order, are 0, 1, .., N-1 with N the group's element count, so
\* they are contiguous, disjoint and leave no row unwritten; and the derived
\* element target[k] of every batch holds the renumbered face vertices of
\* the parent element source[k], each in [0, number of kept vertices) and
\* none the marker -1.
C13_TargetsCoverAndRenumber ==
    restriction # <<>> =>
        \A ig \in DOMAIN restriction[1].per_group :
            LET g == restriction[1].per_group[ig]
                kept == restriction[1].bdry_vertex_vol_nrs
            IN g.exc = "" =>
                /\ Flatten([b \in DOMAIN g.batches |->
                        g.batches[b].group_target_element_indices])
                     = [i \in 1..nelements(g.bdry_mesh_group) |-> i - 1]
                /\ \A b \in DOMAIN g.batches :
                     \A k \in DOMAIN g.batches[b].group_source_element_indices :
                        LET row == g.bdry_mesh_group.vertex_indices.rows
                                [g.batches[b].group_target_element_indices[k] + 1]
                            fv == FaceVerticesOf(discr.mesh.groups[ig],
                                     g.batches[b].group_source_element_indices[k],
                                     g.batches[b].face_id)
                        IN /\ row = [j \in DOMAIN fv |-> Renumbered(kept, fv[j])]
                           /\ \A j \in DOMAIN row : row[j] \in 0..Len(kept) - 1

\* a restriction that returned, in which a volume vertex is not kept and a
\* derived group of two elements is written by two batches
C13_Witness ==
    /\ restriction # <<>> /\ restriction[1].exc = ""
    /\ \E v \in DOMAIN restriction[1].vol_to_bdry_vertices :
          restriction[1].vol_to_bdry_vertices[v] = 0 - 1
    /\ \E b1, b2 \in DOMAIN restriction[1].per_group[1].batches :
          /\ b1 < b2
          /\ restriction[1].per_group[1].batches[b1]
                 .group_target_element_indices = <<0>>
          /\ restriction[1].per_group[1].batches[b2]
                 .group_target_element_indices = <<1>>
    /\ nelements(restriction[1].bdry_mesh[1].groups[1]) = 2


====
